---- MODULE Spec2Model ----
(***************************************************************************)
(* Model of the index compressor of AgentCompiler                          *)
(* (src/src/compressor/index.ts) together with the configuration and       *)
(* registry lookups it depends on.  Strings are TLA+ strings; a character  *)
(* is a string of length 1.                                                *)
(***************************************************************************)
EXTENDS Integers, Sequences, FiniteSets, TLC

(***************************************************************************)
(* JavaScript string primitives used by the compressor.                    *)
(***************************************************************************)

CharAt(s, i) == SubSeq(s, i, i)

Digits == {"0", "1", "2", "3", "4", "5", "6", "7", "8", "9"}

LowerLetters ==
    {"a", "b", "c", "d", "e", "f", "g", "h", "i", "j", "k", "l", "m",
     "n", "o", "p", "q", "r", "s", "t", "u", "v", "w", "x", "y", "z"}

\* Characters of the model's alphabet whose UTF-8 encoding is longer than
\* one byte, with the length of that encoding.
Utf8Width(c) ==
    CASE c = "é" -> 2
      [] c = "日" -> 3
      [] OTHER -> 1

\* Buffer.byteLength(s, 'utf-8'): one byte per character, plus the extra bytes
\* of the characters that encode to more than one byte
byteLength(s) ==
    LET wide == { i \in 1..Len(s) : CharAt(s, i) \in {"é", "日"} }
    IN  Len(s) + Cardinality(wide)
               + Cardinality({ i \in wide : Utf8Width(CharAt(s, i)) = 3 })

LowerOf(c) ==
    CASE c = "A" -> "a" [] c = "B" -> "b" [] c = "C" -> "c" [] c = "D" -> "d"
      [] c = "E" -> "e" [] c = "F" -> "f" [] c = "G" -> "g" [] c = "H" -> "h"
      [] c = "I" -> "i" [] c = "J" -> "j" [] c = "K" -> "k" [] c = "L" -> "l"
      [] c = "M" -> "m" [] c = "N" -> "n" [] c = "O" -> "o" [] c = "P" -> "p"
      [] c = "Q" -> "q" [] c = "R" -> "r" [] c = "S" -> "s" [] c = "T" -> "t"
      [] c = "U" -> "u" [] c = "V" -> "v" [] c = "W" -> "w" [] c = "X" -> "x"
      [] c = "Y" -> "y" [] c = "Z" -> "z" [] c = "É" -> "é"
      [] OTHER -> c

\* String.prototype.toLowerCase
RECURSIVE toLowerCase(_)
toLowerCase(s) ==
    IF s = "" THEN "" ELSE LowerOf(CharAt(s, 1)) \o toLowerCase(Tail(s))

\* s.startsWith(p, i - 1): p occurs in s at the 1-based position i
matchesAt(s, i, p) ==
    /\ i + Len(p) - 1 <= Len(s)
    /\ SubSeq(s, i, i + Len(p) - 1) = p

startsWith(s, p) == matchesAt(s, 1, p)

endsWith(s, p) == Len(p) <= Len(s) /\ matchesAt(s, Len(s) - Len(p) + 1, p)

\* String.prototype.includes
includes(s, p) == \E i \in 1..(Len(s) + 1) : matchesAt(s, i, p)

\* the patterns of the global replacements made by the compressor
Literal(pat, rep) == [kind |-> "literal", pat |-> pat, rep |-> rep]
ExtensionPattern == [kind |-> "extension", pat |-> "", rep |-> ""]
NumberedPattern == [kind |-> "numbered", pat |-> "", rep |-> ""]
SeparatorRunPattern == [kind |-> "separators", pat |-> "", rep |-> ""]

\* /(\d{2})-([a-z])/ matches at position i
numberedPrefixAt(s, i) ==
    /\ i + 3 <= Len(s)
    /\ CharAt(s, i) \in Digits
    /\ CharAt(s, i + 1) \in Digits
    /\ CharAt(s, i + 2) = "-"
    /\ CharAt(s, i + 3) \in LowerLetters

\* length of the run of "|" that starts at position i
RECURSIVE separatorRunAt(_, _)
separatorRunAt(s, i) ==
    IF i <= Len(s) /\ CharAt(s, i) = "|" THEN 1 + separatorRunAt(s, i + 1) ELSE 0

\* length of the match of the pattern at position i of s, 0 when it does
\* not match there: /\.mdx?/ is greedy, /\|+/ takes the whole run
matchLength(pattern, s, i) ==
    CASE pattern.kind = "literal" ->
             IF matchesAt(s, i, pattern.pat) THEN Len(pattern.pat) ELSE 0
      [] pattern.kind = "extension" ->
             IF matchesAt(s, i, ".mdx") THEN 4
             ELSE IF matchesAt(s, i, ".md") THEN 3 ELSE 0
      [] pattern.kind = "numbered" ->
             IF numberedPrefixAt(s, i) THEN 4 ELSE 0
      [] pattern.kind = "separators" ->
             separatorRunAt(s, i)

DigitValue(c) ==
    CASE c = "0" -> 0 [] c = "1" -> 1 [] c = "2" -> 2 [] c = "3" -> 3
      [] c = "4" -> 4 [] c = "5" -> 5 [] c = "6" -> 6 [] c = "7" -> 7
      [] c = "8" -> 8 [] c = "9" -> 9

DigitChar(d) ==
    CASE d = 0 -> "0" [] d = 1 -> "1" [] d = 2 -> "2" [] d = 3 -> "3"
      [] d = 4 -> "4" [] d = 5 -> "5" [] d = 6 -> "6" [] d = 7 -> "7"
      [] d = 8 -> "8" [] d = 9 -> "9"

\* `${parseInt(num)}` for a string of two decimal digits
parseIntText(num) ==
    LET n == 10 * DigitValue(CharAt(num, 1)) + DigitValue(CharAt(num, 2))
    IN  IF n < 10 THEN DigitChar(n) ELSE DigitChar(n \div 10) \o DigitChar(n % 10)

\* what the match of the pattern at position i is replaced by
replacement(pattern, s, i) ==
    CASE pattern.kind = "literal" -> pattern.rep
      [] pattern.kind = "extension" -> ""
      [] pattern.kind = "numbered" ->
             parseIntText(SubSeq(s, i, i + 1)) \o CharAt(s, i + 3)
      [] pattern.kind = "separators" -> "|"

\* least element of a non-empty set of positions
firstOf(positions) == CHOOSE i \in positions : \A j \in positions : i <= j

\* String.prototype.replace with a global pattern: the left-to-right scan from
\* position pos.  candidates are the positions at which the pattern matches;
\* the first one at or after pos is replaced and the scan resumes after that
\* match, so a candidate inside an earlier match is skipped.
RECURSIVE scanReplace(_, _, _, _)
scanReplace(pattern, s, candidates, pos) ==
    LET ahead == { i \in candidates : i >= pos }
    IN  IF ahead = {} THEN SubSeq(s, pos, Len(s))
        ELSE LET i == firstOf(ahead)
             IN  SubSeq(s, pos, i - 1) \o replacement(pattern, s, i)
                     \o scanReplace(pattern, s, ahead,
                                    i + matchLength(pattern, s, i))

replaceGlobal(s, pattern) ==
    scanReplace(pattern, s,
                { i \in 1..Len(s) : matchLength(pattern, s, i) > 0 }, 1)

\* s.replace(/pat/g, rep) for a literal, non-empty pattern
replaceAll(s, pat, rep) == replaceGlobal(s, Literal(pat, rep))

\* s.split(sep) for a one-character separator: the fields between the
\* separators, whose positions are `at`, from position start on
RECURSIVE splitFrom(_, _, _)
splitFrom(s, at, start) ==
    LET ahead == { i \in at : i >= start }
    IN  IF ahead = {} THEN <<SubSeq(s, start, Len(s))>>
        ELSE LET i == firstOf(ahead)
             IN  <<SubSeq(s, start, i - 1)>> \o splitFrom(s, ahead, i + 1)

split(s, sep) == splitFrom(s, { i \in 1..Len(s) : CharAt(s, i) = sep }, 1)

\* Array.prototype.join
RECURSIVE joinWith(_, _)
joinWith(parts, sep) ==
    IF Len(parts) = 0 THEN ""
    ELSE IF Len(parts) = 1 THEN parts[1]
    ELSE parts[1] \o sep \o joinWith(Tail(parts), sep)

(***************************************************************************)
(* Size enforcer: compressAggressively                                     *)
(***************************************************************************)

\* stripExtensions that removes `.mdx` only
stripExtensionsMdxOnly(s) == replaceAll(s, ".mdx", "")

\* compressed.replace(/\.mdx?/g, '')
stripExtensions(s) == replaceGlobal(s, ExtensionPattern)

\* abbreviatePaths without its last replacement
abbreviatePathsWithoutConfiguration(s) ==
    LET a == replaceAll(s, "getting-started", "gs")
        b == replaceAll(a, "api-reference", "api")
    IN  replaceAll(b, "building-your-application", "build")

\* the four literal abbreviations, applied in source order
abbreviatePaths(s) ==
    LET a == replaceAll(s, "getting-started", "gs")
        b == replaceAll(a, "api-reference", "api")
        c == replaceAll(b, "building-your-application", "build")
    IN  replaceAll(c, "configuration", "config")

\* compressed.replace(/(\d{2})-([a-z])/g, (_, num, letter) => `${parseInt(num)}${letter}`)
shortenNumbered(s) == replaceGlobal(s, NumberedPattern)

\* compressed.replace(/\|+/g, '|')
collapseSeparators(s) == replaceGlobal(s, SeparatorRunPattern)

\* passes 1-4 of compressAggressively
rewritePasses(index) ==
    collapseSeparators(shortenNumbered(abbreviatePaths(stripExtensions(index))))

\* line count at which the truncation loop gives up
KeepLines == 5

\* truncateLoop that breaks only when a single line is left
RECURSIVE truncateLoopToOneLine(_, _, _)
truncateLoopToOneLine(compressed, targetSize, dropped) ==
    IF byteLength(compressed) > targetSize
    THEN LET lines == split(compressed, "\n")
         IN  IF Len(lines) <= 1
             THEN [text |-> compressed, dropped |-> dropped]
             ELSE truncateLoopToOneLine(joinWith(SubSeq(lines, 1, Len(lines) - 1), "\n"),
                                        targetSize, dropped + 1)
    ELSE [text |-> compressed, dropped |-> dropped]

\* truncateLoop that pops one line and stops, whatever the size then is
truncateLoopOnce(compressed, targetSize, dropped) ==
    IF byteLength(compressed) > targetSize
    THEN LET lines == split(compressed, "\n")
         IN  IF Len(lines) <= 5
             THEN [text |-> compressed, dropped |-> dropped]
             ELSE [text |-> joinWith(SubSeq(lines, 1, Len(lines) - 1), "\n"),
                   dropped |-> dropped + 1]
    ELSE [text |-> compressed, dropped |-> dropped]

\* truncateLoop that removes the first line instead of the last
RECURSIVE truncateLoopFromTop(_, _, _)
truncateLoopFromTop(compressed, targetSize, dropped) ==
    IF byteLength(compressed) > targetSize
    THEN LET lines == split(compressed, "\n")
         IN  IF Len(lines) <= KeepLines
             THEN [text |-> compressed, dropped |-> dropped]
             ELSE truncateLoopFromTop(joinWith(SubSeq(lines, 2, Len(lines)), "\n"),
                                      targetSize, dropped + 1)
    ELSE [text |-> compressed, dropped |-> dropped]

\* the while loop of compressAggressively; dropped counts its iterations
RECURSIVE truncateLoop(_, _, _)
truncateLoop(compressed, targetSize, dropped) ==
    IF byteLength(compressed) > targetSize
    THEN LET lines == split(compressed, "\n")
         IN  IF Len(lines) <= KeepLines
             THEN [text |-> compressed, dropped |-> dropped]
             ELSE truncateLoop(joinWith(SubSeq(lines, 1, Len(lines) - 1), "\n"),
                               targetSize, dropped + 1)
    ELSE [text |-> compressed, dropped |-> dropped]

compressAggressively(index, targetSize) ==
    truncateLoop(rewritePasses(index), targetSize, 0).text
(***************************************************************************)
(* Tree builder: buildFileTree, extractHeadings, extractFirstParagraph     *)
(*                                                                         *)
(* A directory entry (Dirent plus what the file system holds behind it) is *)
(* a record [name, isDirectory, readable, entries, content]; a FileNode is *)
(* a record [path, name, isDir, children, extracted, headings,             *)
(* firstParagraph], where extracted = FALSE and firstParagraph = "" stand  *)
(* for the optional fields being undefined.                                *)
(***************************************************************************)

Whitespace == {" ", "\t", "\r", "\n"}

\* String.prototype.trim
RECURSIVE trimStart(_)
trimStart(s) ==
    IF s # "" /\ CharAt(s, 1) \in Whitespace THEN trimStart(Tail(s)) ELSE s

RECURSIVE trimEnd(_)
trimEnd(s) ==
    IF s # "" /\ CharAt(s, Len(s)) \in Whitespace
    THEN trimEnd(SubSeq(s, 1, Len(s) - 1))
    ELSE s

trim(s) == trimEnd(trimStart(s))

\* path.join(dir, name) for an already normalised dir and a single segment
join(dir, name, sep) == dir \o sep \o name

\* path.relative(from, to) for a path `to` that lies below `from`
relative(from, to, sep) ==
    IF to = from THEN ""
    ELSE IF startsWith(to, from \o sep)
         THEN SubSeq(to, Len(from) + Len(sep) + 1, Len(to))
         ELSE to

MaxHeadings == 5

\* the loop of extractHeadings over the lines of the content
RECURSIVE collectHeadings(_, _)
collectHeadings(lines, i) ==
    IF i > Len(lines) THEN <<>>
    ELSE LET line == lines[i]
             rest == collectHeadings(lines, i + 1)
         IN  IF startsWith(line, "# ") /\ Len(line) > 2
             THEN <<trim(SubSeq(line, 3, Len(line)))>> \o rest
             ELSE IF startsWith(line, "## ") /\ Len(line) > 3
                  THEN <<trim(SubSeq(line, 4, Len(line)))>> \o rest
                  ELSE rest

extractHeadings(content) ==
    LET headings == collectHeadings(split(content, "\n"), 1)
    IN  SubSeq(headings, 1, IF Len(headings) < MaxHeadings
                            THEN Len(headings) ELSE MaxHeadings)

MaxParagraph == 150

\* the code fence marker; the backquote is written as U+02CB throughout the
\* model because a string literal cannot hold a backquote
CodeFence == "ˋˋˋ"

\* the loop of extractFirstParagraph; paragraph and inParagraph are its locals
RECURSIVE paragraphLoop(_, _, _, _)
paragraphLoop(lines, i, paragraph, inParagraph) ==
    IF i > Len(lines) THEN paragraph
    ELSE LET trimmed == trim(lines[i])
         IN  IF \/ startsWith(trimmed, "---") \/ startsWith(trimmed, "#")
                \/ startsWith(trimmed, CodeFence) \/ startsWith(trimmed, "import ")
                \/ Len(trimmed) = 0
             THEN IF inParagraph /\ paragraph # ""
                  THEN paragraph
                  ELSE paragraphLoop(lines, i + 1, paragraph, inParagraph)
             ELSE LET grown == paragraph \o (IF paragraph # "" THEN " " ELSE "")
                                         \o trimmed
                  IN  IF Len(grown) > MaxParagraph
                      THEN SubSeq(grown, 1, MaxParagraph - 3) \o "..."
                      ELSE paragraphLoop(lines, i + 1, grown, TRUE)

\* "" stands for undefined (the code returns `paragraph || undefined`)
extractFirstParagraph(content) == paragraphLoop(split(content, "\n"), 1, "", FALSE)

IsMarkdownName(name) == endsWith(name, ".md") \/ endsWith(name, ".mdx")

fileNode(entry, fullPath, extractContent) ==
    LET read == extractContent /\ entry.readable
    IN  [path |-> fullPath, name |-> entry.name, isDir |-> FALSE,
         children |-> <<>>,
         extracted |-> read,
         headings |-> IF read THEN extractHeadings(entry.content) ELSE <<>>,
         firstParagraph |-> IF read THEN extractFirstParagraph(entry.content)
                            ELSE ""]

dirNode(entry, fullPath, children) ==
    [path |-> fullPath, name |-> entry.name, isDir |-> TRUE,
     children |-> children, extracted |-> FALSE, headings |-> <<>>,
     firstParagraph |-> ""]

RECURSIVE buildFileTree(_, _, _, _)
RECURSIVE buildEntries(_, _, _, _, _)

\* the loop of buildFileTree that pushes a directory node whatever its
\* recursive build yields
buildEntriesKeepingEmpty(entries, i, dir, extractContent, sep) ==
    IF i > Len(entries) THEN <<>>
    ELSE LET entry == entries[i]
             fullPath == join(dir, entry.name, sep)
             rest == buildEntries(entries, i + 1, dir, extractContent, sep)
         IN  IF startsWith(entry.name, ".") THEN rest
             ELSE IF entry.isDirectory
                  THEN <<dirNode(entry, fullPath,
                                 buildFileTree(entry, fullPath, extractContent, sep))>>
                          \o rest
                  ELSE IF IsMarkdownName(entry.name)
                       THEN <<fileNode(entry, fullPath, extractContent)>> \o rest
                       ELSE rest

\* the for loop of buildFileTree over the entries readdir returned
buildEntries(entries, i, dir, extractContent, sep) ==
    IF i > Len(entries) THEN <<>>
    ELSE LET entry == entries[i]
             fullPath == join(dir, entry.name, sep)
             rest == buildEntries(entries, i + 1, dir, extractContent, sep)
         IN  IF startsWith(entry.name, ".") THEN rest
             ELSE IF entry.isDirectory
                  THEN LET children == buildFileTree(entry, fullPath,
                                                     extractContent, sep)
                       IN  IF Len(children) > 0
                           THEN <<dirNode(entry, fullPath, children)>> \o rest
                           ELSE rest
                  ELSE IF IsMarkdownName(entry.name)
                       THEN <<fileNode(entry, fullPath, extractContent)>> \o rest
                       ELSE rest

\* buildFileTree in which a failed read of a file ends the build of the
\* directory with no nodes
buildFileTreeFailingOnRead(d, dir, extractContent, sep) ==
    IF ~d.isDirectory \/ ~d.readable THEN <<>>
    ELSE IF extractContent
            /\ \E k \in 1..Len(d.entries) :
                  /\ ~d.entries[k].isDirectory
                  /\ ~d.entries[k].readable
                  /\ IsMarkdownName(d.entries[k].name)
         THEN <<>>
         ELSE buildEntries(d.entries, 1, dir, extractContent, sep)

\* buildFileTree that lists the entries even when readdir fails
buildFileTreeIgnoringErrors(d, dir, extractContent, sep) ==
    buildEntries(d.entries, 1, dir, extractContent, sep)

\* d is the state of the directory at path dir: readdir throws when it does
\* not exist or cannot be read, and the catch leaves nodes empty
buildFileTree(d, dir, extractContent, sep) ==
    IF ~d.isDirectory \/ ~d.readable THEN <<>>
    ELSE buildEntries(d.entries, 1, dir, extractContent, sep)

(***************************************************************************)
(* Prioritizer: prioritizeTree                                             *)
(***************************************************************************)

\* priority.findIndex(p => node.name.toLowerCase().includes(p.toLowerCase())),
\* 1-based, 0 for "not found"
RECURSIVE findPriorityFrom(_, _, _)
findPriorityFrom(name, priority, i) ==
    IF i > Len(priority) THEN 0
    ELSE IF includes(toLowerCase(name), toLowerCase(priority[i])) THEN i
    ELSE findPriorityFrom(name, priority, i + 1)

findPriorityIndex(name, priority) == findPriorityFrom(name, priority, 1)

\* the for loop of prioritizeTree; a slot of prioritized is <<>> (a hole of
\* the sparse array) or <<node>>
RECURSIVE prioritizeLoop(_, _, _, _, _)
prioritizeLoop(tree, i, priority, prioritized, remaining) ==
    IF i > Len(tree) THEN [prioritized |-> prioritized, remaining |-> remaining]
    ELSE LET node == tree[i]
             priorityIndex == findPriorityIndex(node.name, priority)
         IN  IF priorityIndex >= 1
             THEN prioritizeLoop(tree, i + 1, priority,
                                 [prioritized EXCEPT ![priorityIndex] = <<node>>],
                                 remaining)
             ELSE prioritizeLoop(tree, i + 1, priority, prioritized,
                                 Append(remaining, node))

\* prioritized.filter(Boolean)
RECURSIVE filledSlots(_, _)
filledSlots(prioritized, i) ==
    IF i > Len(prioritized) THEN <<>>
    ELSE prioritized[i] \o filledSlots(prioritized, i + 1)

\* prioritizeTree that keeps every matching node instead of one per slot
prioritizeTreeKeepingAll(tree, priority) ==
    IF Len(priority) = 0 THEN tree
    ELSE SelectSeq(tree, LAMBDA n : findPriorityIndex(n.name, priority) >= 1)
           \o SelectSeq(tree, LAMBDA n : findPriorityIndex(n.name, priority) = 0)

\* prioritizeTree that puts the unmatched nodes first
prioritizeTreeRemainingFirst(tree, priority) ==
    IF Len(priority) = 0 THEN tree
    ELSE LET r == prioritizeLoop(tree, 1, priority,
                                 [k \in 1..Len(priority) |-> <<>>], <<>>)
         IN  r.remaining \o filledSlots(r.prioritized, 1)

prioritizeTree(tree, priority) ==
    IF Len(priority) = 0 THEN tree
    ELSE LET r == prioritizeLoop(tree, 1, priority,
                                 [k \in 1..Len(priority) |-> <<>>], <<>>)
         IN  filledSlots(r.prioritized, 1) \o r.remaining


(***************************************************************************)
(* Formatters: formatIndexV1, formatIndexV2 and their lookup tables        *)
(***************************************************************************)

\* node.children.filter(c => !c.isDir).map(c => c.name)
RECURSIVE fileNames(_, _)
fileNames(children, i) ==
    IF i > Len(children) THEN <<>>
    ELSE IF ~children[i].isDir
         THEN <<children[i].name>> \o fileNames(children, i + 1)
         ELSE fileNames(children, i + 1)

RECURSIVE nestedLinesV1(_, _, _, _)

\* nestedLinesV1 that also descends into the subdirectories of a subdirectory
nestedLinesV1Deep(children, i, rootDir, sep) ==
    IF i > Len(children) THEN <<>>
    ELSE LET child == children[i]
             rest == nestedLinesV1(children, i + 1, rootDir, sep)
         IN  IF child.isDir
             THEN LET nestedPath == relative(rootDir, child.path, sep)
                      nestedFiles == joinWith(fileNames(child.children, 1), ",")
                  IN  (IF nestedFiles # ""
                       THEN <<"|" \o nestedPath \o ":{" \o nestedFiles \o "}">>
                       ELSE <<>>)
                      \o nestedLinesV1(child.children, 1, rootDir, sep) \o rest
             ELSE rest

\* the inner for loop of formatIndexV1 over the subdirectories of a section
nestedLinesV1(children, i, rootDir, sep) ==
    IF i > Len(children) THEN <<>>
    ELSE LET child == children[i]
             rest == nestedLinesV1(children, i + 1, rootDir, sep)
         IN  IF child.isDir
             THEN LET nestedPath == relative(rootDir, child.path, sep)
                      nestedFiles == joinWith(fileNames(child.children, 1), ",")
                  IN  IF nestedFiles # ""
                      THEN <<"|" \o nestedPath \o ":{" \o nestedFiles \o "}">> \o rest
                      ELSE rest
             ELSE rest

\* the for loop of formatIndexV1 over the top-level nodes
RECURSIVE sectionLinesV1(_, _, _, _)
sectionLinesV1(tree, i, rootDir, sep) ==
    IF i > Len(tree) THEN <<>>
    ELSE LET node == tree[i]
             rest == sectionLinesV1(tree, i + 1, rootDir, sep)
         IN  IF node.isDir
             THEN LET sectionPath == relative(rootDir, node.path, sep)
                      files == joinWith(fileNames(node.children, 1), ",")
                      own == IF files # ""
                             THEN <<"|" \o sectionPath \o ":{" \o files \o "}">>
                             ELSE <<>>
                  IN  own \o nestedLinesV1(node.children, 1, rootDir, sep) \o rest
             ELSE <<"|{" \o node.name \o "}">> \o rest

\* skill.displayName || skill.name
displayNameOf(skill) == IF skill.displayName # "" THEN skill.displayName ELSE skill.name

headerLinesV1(skill) ==
    << "[" \o displayNameOf(skill) \o " Docs Index]|root: ./.agent-docs/" \o skill.name,
       "|IMPORTANT: Prefer retrieval-led reasoning over pre-training-led reasoning for "
           \o displayNameOf(skill) \o " tasks." >>

\* formatIndexV1 that prints the actual cache directory as the root
formatIndexV1ActualRoot(skill, tree, rootDir, sep) ==
    joinWith(<< "[" \o displayNameOf(skill) \o " Docs Index]|root: " \o rootDir,
                headerLinesV1(skill)[2] >>
               \o sectionLinesV1(tree, 1, rootDir, sep), "\n")

\* formatIndexV1 that drops the extensions of the listed files, as v2 does
formatIndexV1NoExtensions(skill, tree, rootDir, sep) ==
    joinWith(headerLinesV1(skill)
               \o [k \in 1..Len(sectionLinesV1(tree, 1, rootDir, sep)) |->
                     replaceGlobal(sectionLinesV1(tree, 1, rootDir, sep)[k],
                                   ExtensionPattern)],
             "\n")

formatIndexV1(skill, tree, rootDir, sep) ==
    joinWith(headerLinesV1(skill) \o sectionLinesV1(tree, 1, rootDir, sep), "\n")

\* version.split('.')[0]
majorOf(version) == split(version, ".")[1]

\* getBreakingChanges that looks the whole version text up, not its major
getBreakingChangesByVersion(framework, version) ==
    CASE framework = "nextjs" /\ version \in {"15", "16"} ->
             << "cookies()/headers() are now async",
                "fetch() no longer cached by default" >>
      [] framework = "react" /\ version = "19" ->
             << "forwardRef no longer needed",
                "useContext removed, use use() instead" >>
      [] OTHER -> <<>>

getBreakingChanges(framework, version) ==
    LET major == majorOf(version)
    IN  CASE framework = "nextjs" /\ major \in {"15", "16"} ->
                 << "cookies()/headers() are now async",
                    "fetch() no longer cached by default" >>
          [] framework = "react" /\ major = "19" ->
                 << "forwardRef no longer needed",
                    "useContext removed, use use() instead" >>
          [] OTHER -> <<>>

getNewApis(framework, version) ==
    LET major == majorOf(version)
    IN  CASE framework = "nextjs" /\ major = "15" ->
                 << "after() for post-response work",
                    "instrumentation for OpenTelemetry" >>
          [] framework = "nextjs" /\ major = "16" ->
                 << "connection() for dynamic rendering",
                    "'use cache' directive for caching",
                    "cacheLife() for custom expiration",
                    "cacheTag() for cache invalidation",
                    "forbidden()/unauthorized() responses" >>
          [] framework = "react" /\ major = "19" ->
                 << "use() for promises and context",
                    "useOptimistic() for optimistic updates",
                    "useActionState() for form actions" >>
          [] OTHER -> <<>>

MaxNewApis == 5

prefixEach(prefix, items) == [k \in 1..Len(items) |-> prefix \o items[k]]

\* c.name.replace(/\.mdx?$/, '')
stripTrailingExtension(name) ==
    IF endsWith(name, ".mdx") THEN SubSeq(name, 1, Len(name) - 4)
    ELSE IF endsWith(name, ".md") THEN SubSeq(name, 1, Len(name) - 3)
    ELSE name

\* the section lines of v1 in place of those of v2
sectionLinesV2LikeV1(tree, i, rootDir, sep) == sectionLinesV1(tree, i, rootDir, sep)

\* the for loop of formatIndexV2 over the top-level nodes
RECURSIVE sectionLinesV2(_, _, _, _)
sectionLinesV2(tree, i, rootDir, sep) ==
    IF i > Len(tree) THEN <<>>
    ELSE LET node == tree[i]
             rest == sectionLinesV2(tree, i + 1, rootDir, sep)
         IN  IF node.isDir
             THEN LET sectionPath == replaceAll(relative(rootDir, node.path, sep),
                                                "\\", "/")
                      names == fileNames(node.children, 1)
                      files == joinWith([k \in 1..Len(names) |->
                                            stripTrailingExtension(names[k])], ",")
                  IN  IF files # ""
                      THEN <<"|" \o sectionPath \o ":{" \o files \o "}">> \o rest
                      ELSE rest
             ELSE rest

headerLinesV2(skill) ==
    << "[" \o displayNameOf(skill) \o " Docs Index]|v" \o skill.version
           \o "|root:./.agent-docs/" \o skill.name,
       "|PREFER retrieval over pre-training for " \o displayNameOf(skill) \o " tasks." >>

\* formatIndexV2 that adds, for every top-level node, a line with the first
\* paragraph and the headings extracted from its first file
formatIndexV2WithContent(skill, tree, rootDir, sep) ==
    joinWith(headerLinesV2(skill)
               \o prefixEach("|BREAKING: ",
                             getBreakingChanges(skill.name, skill.version))
               \o prefixEach("|NEW: ", getNewApis(skill.name, skill.version))
               \o sectionLinesV2(tree, 1, rootDir, sep)
               \o [k \in 1..Len(tree) |->
                     LET first == IF tree[k].isDir THEN tree[k].children[1] ELSE tree[k]
                     IN  "|" \o first.firstParagraph \o joinWith(first.headings, ",")],
             "\n")

\* formatIndexV2 that pushes the NEW lines before the BREAKING lines
formatIndexV2NewFirst(skill, tree, rootDir, sep) ==
    joinWith(headerLinesV2(skill)
               \o prefixEach("|NEW: ", getNewApis(skill.name, skill.version))
               \o prefixEach("|BREAKING: ",
                             getBreakingChanges(skill.name, skill.version))
               \o sectionLinesV2(tree, 1, rootDir, sep),
             "\n")

formatIndexV2(skill, tree, rootDir, sep) ==
    LET newApis == getNewApis(skill.name, skill.version)
        shown == SubSeq(newApis, 1, IF Len(newApis) < MaxNewApis
                                    THEN Len(newApis) ELSE MaxNewApis)
    IN  joinWith(headerLinesV2(skill)
                   \o prefixEach("|BREAKING: ",
                                 getBreakingChanges(skill.name, skill.version))
                   \o prefixEach("|NEW: ", shown)
                   \o sectionLinesV2(tree, 1, rootDir, sep),
                 "\n")

(***************************************************************************)
(* Registry and configuration lookups used by compressIndex                *)
(***************************************************************************)

\* name and priority of every entry of `registries`, in source order; an
\* entry without a priority list has <<>> (the caller defaults it to [])
registries ==
    << [name |-> "nextjs",         priority |-> <<"app", "api-reference", "routing">>],
       [name |-> "react",          priority |-> <<"reference", "learn">>],
       [name |-> "supabase",       priority |-> <<"guides", "reference">>],
       [name |-> "tailwindcss",    priority |-> <<>>],
       [name |-> "prisma",         priority |-> <<"orm", "reference">>],
       [name |-> "vue",            priority |-> <<"guide", "api">>],
       [name |-> "astro",          priority |-> <<"guides", "reference">>],
       [name |-> "sveltekit",      priority |-> <<>>],
       [name |-> "drizzle",        priority |-> <<>>],
       [name |-> "trpc",           priority |-> <<>>],
       [name |-> "zod",            priority |-> <<>>],
       [name |-> "tanstack-query", priority |-> <<"framework/react", "guides">>],
       [name |-> "nuxt",           priority |-> <<"guide", "api">>],
       [name |-> "remix",          priority |-> <<"guides", "api">>],
       [name |-> "hono",           priority |-> <<>>],
       [name |-> "effect",         priority |-> <<>>],
       [name |-> "bun",            priority |-> <<"api", "runtime">>] >>

\* getRegistry(name)?.priority || []
RECURSIVE registryPriorityFrom(_, _)
registryPriorityFrom(name, i) ==
    IF i > Len(registries) THEN <<>>
    ELSE IF registries[i].name = name THEN registries[i].priority
    ELSE registryPriorityFrom(name, i + 1)

registryPriority(name) == registryPriorityFrom(name, 1)

DEFAULT_TARGET_SIZE_BYTES == 8 * 1024

\* DEFAULT_CONFIG.compression
DefaultCompression == [targetSize |-> 8192, format |-> "v1"]

\* loadConfig(cwd).compression for a config file [exists, parses, hasTargetSize,
\* targetSize, hasFormat, format]: the user's keys override the defaults
loadConfig(file) ==
    IF ~file.exists \/ ~file.parses THEN DefaultCompression
    ELSE [targetSize |-> IF file.hasTargetSize THEN file.targetSize
                         ELSE DefaultCompression.targetSize,
          format |-> IF file.hasFormat THEN file.format
                     ELSE DefaultCompression.format]


(***************************************************************************)
(* Inputs: documentation caches, skills, options and config files          *)
(***************************************************************************)

\* size is what stat reports for the entry
File(name, content) ==
    [name |-> name, isDirectory |-> FALSE, readable |-> TRUE,
     entries |-> <<>>, content |-> content, size |-> byteLength(content)]

UnreadableFile(name) ==
    [name |-> name, isDirectory |-> FALSE, readable |-> FALSE,
     entries |-> <<>>, content |-> "", size |-> 0]

\* a file that is not markdown: only its size matters
Blob(name, size) ==
    [name |-> name, isDirectory |-> FALSE, readable |-> TRUE,
     entries |-> <<>>, content |-> "", size |-> size]

Dir(name, entries) ==
    [name |-> name, isDirectory |-> TRUE, readable |-> TRUE,
     entries |-> entries, content |-> "", size |-> 0]

UnreadableDir(name, entries) ==
    [name |-> name, isDirectory |-> TRUE, readable |-> FALSE,
     entries |-> entries, content |-> "", size |-> 0]

\* a cache directory path at which nothing exists
Missing ==
    [name |-> "", isDirectory |-> FALSE, readable |-> FALSE,
     entries |-> <<>>, content |-> "", size |-> 0]

ZzIntro ==
    Dir("zz-intro",
        << File("a.md", "---\ntitle: A\n---\n# Intro\n\nWelcome to the docs.\n\nMore."),
           Dir("b", << File("c.md", "## Only\nText |here"), UnreadableFile("é.md") >>),
           Dir("d", << File("e.mdx", "import X from 'x'\n\nBody") >>) >>)

App ==
    Dir("01-app",
        << File(".meta.json", "{}"),
           File("page.md", "# Page\n## Usage\ntext"),
           Blob("logo.png", 4096),
           Dir("api-reference", << File("configuration.md", "#notheading\nconfig") >>),
           Dir("deep", << Dir("deeper", << File("x.md", "x") >>) >>),
           Dir("empty", << File("notes.txt", "n") >>),
           Dir(".git", << File("HEAD.md", "ref") >>),
           UnreadableDir("locked", << File("secret.md", "s") >>) >>)

GettingStarted ==
    Dir("01-getting-started",
        << UnreadableFile("installation.mdx"),
           File("setup.mdx", "Setup steps") >>)

\* the comment lines that delimit the managed section of the manifest
BeginSentinel == "<!-- BEGIN SKILL-COMPILER MANAGED SECTION -->"

EndSentinel == "<!-- END SKILL-COMPILER MANAGED SECTION -->"

AppRouter ==
    Dir("App-Router",
        << Dir("only",
               << File("r.md", "# R"),
                  File(EndSentinel \o ".md", "s"),
                  File("configurationuration.m.mdd.md", "c") >>) >>)

Readme == File("README.md", "# Docs\n\nStart here.")

\* the entries a cache directory listing is drawn from
EntryPool == {ZzIntro, App, GettingStarted, AppRouter, Readme}

\* most entries readdir returns for the cache directory
MaxEntries == 2

RECURSIVE Listings(_)
Listings(n) ==
    IF n = 0 THEN {<<>>}
    ELSE LET shorter == Listings(n - 1)
         IN  shorter \cup
             { Append(l, e) : <<l, e>> \in
                 { p \in shorter \X EntryPool :
                     /\ Len(p[1]) = n - 1
                     /\ \A k \in 1..Len(p[1]) : p[1][k].name # p[2].name } }

\* states of the cache directory: missing, unreadable, or some listing
CacheDirStates ==
    {Missing, UnreadableDir("", <<Readme>>)}
        \cup { Dir("", l) : l \in Listings(MaxEntries) }

\* DetectedSkill values; displayName "" stands for an absent displayName
Skills ==
    { [name |-> "nextjs", version |-> "16.0.0", displayName |-> "Next.js"],
      [name |-> "vue", version |-> "3.4.0", displayName |-> "Vue.js"],
      [name |-> "my-skill", version |-> "latest", displayName |-> ""] }

\* options.targetSize; 0 stands for an absent (or zero) targetSize
TargetSizes == {-1, 0, 100, 230}

\* options.format; "" stands for an absent format
Formats == {"", "v2"}

\* options.cwd as a list of path segments; <<>> stands for an absent cwd
Cwds == {<<>>, <<"srv", "app">>}

\* process.cwd() as a list of path segments
ProcessCwd == <<"w">>

\* states of .skill-compiler.json
ConfigFiles ==
    { [exists |-> FALSE, parses |-> FALSE, hasTargetSize |-> FALSE,
       targetSize |-> 0, hasFormat |-> FALSE, format |-> ""],
      [exists |-> TRUE, parses |-> TRUE, hasTargetSize |-> TRUE,
       targetSize |-> 300, hasFormat |-> FALSE, format |-> ""] }

Separators == {"/", "\\"}

\* an absolute path on the platform whose separator is sep
absolutePath(segments, sep) ==
    joinWith([k \in 1..Len(segments) |-> sep \o segments[k]], "")

(***************************************************************************)
(* compressIndex as a state machine                                        *)
(***************************************************************************)

VARIABLES
    sep,            \* path.sep of the platform
    configFile,     \* state of .skill-compiler.json in cwd
    docs,           \* state of the cache directory of the skill
    pc,             \* position of the compressIndex call
    skill,          \* argument skill
    options,        \* argument options
    cwd,            \* local cwd
    format,         \* local format
    targetSize,     \* local targetSize
    tree,           \* local tree
    orderedTree,    \* local orderedTree
    index,          \* local index; the returned value once pc = "done"
    entry,          \* the exported function that was called
    originalSize,   \* local originalSize of getCompressionStats
    stats,          \* value returned by getCompressionStats
    detected,       \* skills the scan detected, in scan order
    caches,         \* state of the cache directory of each detected skill
    calls,          \* locals of each compressIndex call of the batch
    indexes,        \* array Promise.all fills, one slot per call
    master,         \* position of the caller of Promise.all
    loop,           \* position and locals of a compressAggressively call
    watch,          \* position of watchProject
    debounceTimer,  \* local debounceTimer of watchProject
    updates,        \* position of each runUpdate execution
    customSkills,   \* customSkills of .skill-compiler.json
    lastCall        \* the last custom-skill call: the list it loaded, what it returned

envVars == <<sep, configFile, docs>>

callVars == <<pc, skill, options, cwd, format, targetSize, tree, orderedTree, index>>

statsVars == <<entry, originalSize, stats>>

batchVars == <<detected, caches, calls, indexes, master>>

loopVars == <<loop>>

watchVars == <<watch, debounceTimer, updates>>

customVars == <<customSkills, lastCall>>

otherVars == <<loop, watch, debounceTimer, updates, customSkills, lastCall>>

vars == <<sep, configFile, docs, pc, skill, options, cwd, format, targetSize,
          tree, orderedTree, index, entry, originalSize, stats,
          detected, caches, calls, indexes, master,
          loop, watch, debounceTimer, updates, customSkills, lastCall>>

NoSkill == [name |-> "", version |-> "", displayName |-> ""]

NoOptions == [format |-> "", targetSize |-> 0, cwd |-> ""]

NoStats == [originalSize |-> 0, compressedSize |-> 0, reductionPercent |-> 0]

\* no call is running
Idle ==
    /\ pc = "idle"
    /\ skill = NoSkill
    /\ options = NoOptions
    /\ cwd = ""
    /\ format = ""
    /\ targetSize = 0
    /\ tree = <<>>
    /\ orderedTree = <<>>
    /\ index = ""
    /\ entry = ""
    /\ originalSize = 0
    /\ stats = NoStats

\* no batch is running
NoBatch ==
    /\ detected = <<>>
    /\ caches = <<>>
    /\ calls = <<>>
    /\ indexes = <<>>
    /\ master = "none"

NoLoop == [pc |-> "none", index |-> "", compressed |-> "", targetSize |-> 0]

NoCall == [op |-> "none", name |-> "", value |-> FALSE, loaded |-> <<>>]

\* compressAggressively, watchProject and the custom-skill functions are not running
NoOther ==
    /\ loop = NoLoop
    /\ watch = "none"
    /\ debounceTimer = "null"
    /\ updates = <<>>
    /\ customSkills = <<>>
    /\ lastCall = NoCall

Init ==
    /\ sep \in Separators
    /\ configFile \in ConfigFiles
    /\ docs \in CacheDirStates
    /\ Idle
    /\ NoBatch
    /\ NoOther

\* join(cwd, '.agent-docs', skill.name)
cacheDirOf(c, s, separator) == join(join(c, ".agent-docs", separator), s.name, separator)

cacheDir == cacheDirOf(cwd, skill, sep)

\* options?.cwd || process.cwd()
cwdOf(c, separator) ==
    IF c = <<>> THEN absolutePath(ProcessCwd, separator) ELSE absolutePath(c, separator)

\* compressIndex is called; it runs up to `await loadConfig(cwd)`
CompressIndexCall ==
    /\ pc = "idle"
    /\ \E s \in Skills, f \in Formats, t \in TargetSizes, c \in Cwds :
          /\ skill' = s
          /\ options' = [format |-> f, targetSize |-> t,
                         cwd |-> IF c = <<>> THEN "" ELSE absolutePath(c, sep)]
          /\ cwd' = cwdOf(c, sep)
    /\ pc' = "loadConfig"
    /\ entry' = "compressIndex"
    /\ UNCHANGED <<sep, configFile, docs, format, targetSize, tree, orderedTree, index,
                   originalSize, stats>>
    /\ UNCHANGED batchVars
    /\ UNCHANGED otherVars

RECURSIVE calcDirSize(_)
RECURSIVE calcEntriesSize(_, _)

\* the for loop of calcDirSize: directories add their own total, every
\* other entry adds the size stat reports
calcEntriesSize(entries, i) ==
    IF i > Len(entries) THEN 0
    ELSE (IF entries[i].isDirectory THEN calcDirSize(entries[i])
          ELSE entries[i].size)
         + calcEntriesSize(entries, i + 1)

\* readdir throws for a missing or unreadable directory and the catch leaves
\* size at 0
calcDirSize(d) ==
    IF ~d.isDirectory \/ ~d.readable THEN 0
    ELSE calcEntriesSize(d.entries, 1)

\* getCompressionStats is called; it runs up to `await calcDirSize(cacheDir)`
GetCompressionStatsCall ==
    /\ pc = "idle"
    /\ \E s \in Skills, c \in Cwds :
          /\ skill' = s
          /\ cwd' = cwdOf(c, sep)
    /\ pc' = "calcDirSize"
    /\ entry' = "getCompressionStats"
    /\ UNCHANGED <<sep, configFile, docs, options, format, targetSize, tree,
                   orderedTree, index, originalSize, stats>>
    /\ UNCHANGED batchVars
    /\ UNCHANGED otherVars

\* calcDirSize resolves; compressIndex(skill, { cwd }) is called and runs up
\* to `await loadConfig(cwd)`
DirSized ==
    /\ pc = "calcDirSize"
    /\ originalSize' = calcDirSize(docs)
    /\ options' = [format |-> "", targetSize |-> 0, cwd |-> cwd]
    /\ pc' = "loadConfig"
    /\ UNCHANGED <<sep, configFile, docs, skill, cwd, format, targetSize, tree,
                   orderedTree, index, entry, stats>>
    /\ UNCHANGED batchVars
    /\ UNCHANGED otherVars

\* options?.format || config.compression?.format || 'v1'
effectiveFormat(o, compression) ==
    IF o.format # "" THEN o.format
    ELSE IF compression.format # "" THEN compression.format
    ELSE "v1"

\* options?.targetSize || config.compression?.targetSize || DEFAULT_TARGET_SIZE_BYTES
effectiveTargetSize(o, compression) ==
    IF o.targetSize # 0 THEN o.targetSize
    ELSE IF compression.targetSize # 0 THEN compression.targetSize
    ELSE DEFAULT_TARGET_SIZE_BYTES

\* loadConfig resolves; format and targetSize are chosen and the tree build starts
ConfigLoaded ==
    /\ pc = "loadConfig"
    /\ format' = effectiveFormat(options, loadConfig(configFile))
    /\ targetSize' = effectiveTargetSize(options, loadConfig(configFile))
    /\ pc' = "buildFileTree"
    /\ UNCHANGED <<sep, configFile, docs, skill, options, cwd, tree, orderedTree, index>>
    /\ UNCHANGED statsVars
    /\ UNCHANGED batchVars
    /\ UNCHANGED otherVars

formatIndex(fmt, s, t, rootDir, separator) ==
    IF fmt = "v2" THEN formatIndexV2(s, t, rootDir, separator)
    ELSE formatIndexV1(s, t, rootDir, separator)

\* enforceSize that runs compressAggressively whatever the size is
enforceSizeAlways(rendered, target) == compressAggressively(rendered, target)

\* enforceSize with the comparison reversed
enforceSizeReversed(rendered, target) ==
    IF byteLength(rendered) < target
    THEN compressAggressively(rendered, target)
    ELSE rendered

\* the size check and the call of compressAggressively at the end of compressIndex
enforceSize(rendered, target) ==
    IF byteLength(rendered) > target
    THEN compressAggressively(rendered, target)
    ELSE rendered

\* buildFileTree resolves; the tree is prioritized, formatted, size-enforced
\* and returned
TreeBuilt ==
    /\ pc = "buildFileTree"
    /\ LET built == buildFileTree(docs, cacheDir, format = "v2", sep)
           ordered == prioritizeTree(built, registryPriority(skill.name))
       IN  /\ tree' = built
           /\ orderedTree' = ordered
           /\ index' = enforceSize(formatIndex(format, skill, ordered, cacheDir, sep),
                                   targetSize)
    /\ pc' = "done"
    /\ UNCHANGED <<sep, configFile, docs, skill, options, cwd, format, targetSize>>
    /\ UNCHANGED statsVars
    /\ UNCHANGED batchVars
    /\ UNCHANGED otherVars

\* the percentage the compressed size is of the original, rounded
reductionPercentsAsRatio(original, compressed) ==
    { (200 * compressed + original) \div (2 * original) }

\* the results Math.round((1 - compressedSize / originalSize) * 100) can
\* have: the exact quotient rounded half up; where the exact value lies
\* halfway between two integers the floating-point value may fall on either
\* side of it
reductionPercents(original, compressed) ==
    LET scaled == 200 * (original - compressed) + original
        halfUp == scaled \div (2 * original)
    IN  IF scaled % (2 * original) = 0 THEN {halfUp - 1, halfUp} ELSE {halfUp}

\* compressIndex resolves inside getCompressionStats, which returns the sizes
\* and the reduction
StatsReturned ==
    /\ pc = "done"
    /\ entry = "getCompressionStats"
    /\ \E percent \in (IF originalSize > 0
                        THEN reductionPercents(originalSize, byteLength(index))
                        ELSE {0}) :
          stats' = [originalSize |-> originalSize,
                    compressedSize |-> byteLength(index),
                    reductionPercent |-> percent]
    /\ pc' = "returned"
    /\ UNCHANGED <<sep, configFile, docs, skill, options, cwd, format, targetSize,
                   tree, orderedTree, index, entry, originalSize>>
    /\ UNCHANGED batchVars
    /\ UNCHANGED otherVars

Next ==
    \/ CompressIndexCall
    \/ GetCompressionStatsCall
    \/ DirSized
    \/ ConfigLoaded
    \/ TreeBuilt
    \/ StatsReturned

Spec == Init /\ [][Next]_vars


(***************************************************************************)
(* The compile and watch commands: Promise.all over compressIndex calls    *)
(***************************************************************************)

\* most skills a scan detects
MaxDetected == 2

\* the lists of distinct skills a scan can detect
DetectedLists ==
    { l \in UNION { [1..n -> Skills] : n \in 1..MaxDetected } :
        \A a, b \in 1..Len(l) : a # b => l[a] # l[b] }

\* states of the cache directory of a detected skill
BatchCaches == { Dir("", <<ZzIntro, App>>), Dir("", <<GettingStarted>>) }

BatchInit ==
    /\ sep \in Separators
    /\ configFile \in ConfigFiles
    /\ docs = Missing
    /\ Idle
    /\ detected \in DetectedLists
    /\ caches \in [1..Len(detected) -> BatchCaches]
    /\ calls = <<>>
    /\ indexes = <<>>
    /\ master = "scanned"
    /\ NoOther

\* detected.map(skill => compressIndex(skill)): every call runs, in order,
\* up to its `await loadConfig(cwd)`; Promise.all then waits for all of them
CompileStart ==
    /\ master = "scanned"
    /\ calls' = [i \in 1..Len(detected) |->
                   [pc |-> "loadConfig", skill |-> detected[i],
                    cwd |-> cwdOf(<<>>, sep), format |-> "", targetSize |-> 0,
                    index |-> ""]]
    /\ indexes' = [i \in 1..Len(detected) |-> <<>>]
    /\ master' = "awaiting"
    /\ UNCHANGED <<detected, caches>>
    /\ UNCHANGED envVars
    /\ UNCHANGED callVars
    /\ UNCHANGED statsVars
    /\ UNCHANGED otherVars

\* loadConfig resolves in call i
CallConfigLoaded(i) ==
    /\ master = "awaiting"
    /\ calls[i].pc = "loadConfig"
    /\ calls' = [calls EXCEPT
                   ![i].format = effectiveFormat(NoOptions, loadConfig(configFile)),
                   ![i].targetSize = effectiveTargetSize(NoOptions, loadConfig(configFile)),
                   ![i].pc = "buildFileTree"]
    /\ UNCHANGED <<detected, caches, indexes, master>>
    /\ UNCHANGED envVars
    /\ UNCHANGED callVars
    /\ UNCHANGED statsVars
    /\ UNCHANGED otherVars

\* an array filled in the order in which the promises settle
settleInCompletionOrder(results, i, value) ==
    [results EXCEPT ![firstOf({ k \in 1..Len(results) : results[k] = <<>> })] = <<value>>]

\* Promise.all stores the value of the i-th promise in the i-th slot
settle(results, i, value) == [results EXCEPT ![i] = <<value>>]

\* buildFileTree resolves in call i, which returns its index
CallTreeBuilt(i) ==
    /\ master = "awaiting"
    /\ calls[i].pc = "buildFileTree"
    /\ LET c == calls[i]
           root == cacheDirOf(c.cwd, c.skill, sep)
           built == buildFileTree(caches[i], root, c.format = "v2", sep)
           ordered == prioritizeTree(built, registryPriority(c.skill.name))
           returned == enforceSize(formatIndex(c.format, c.skill, ordered, root, sep),
                                   c.targetSize)
       IN  /\ calls' = [calls EXCEPT ![i].index = returned, ![i].pc = "done"]
           /\ indexes' = settle(indexes, i, returned)
    /\ UNCHANGED <<detected, caches, master>>
    /\ UNCHANGED envVars
    /\ UNCHANGED callVars
    /\ UNCHANGED statsVars
    /\ UNCHANGED otherVars

\* every call has returned: the await of Promise.all resumes with the array
PromiseAllResolved ==
    /\ master = "awaiting"
    /\ \A i \in 1..Len(calls) : calls[i].pc = "done"
    /\ master' = "resolved"
    /\ UNCHANGED <<detected, caches, calls, indexes>>
    /\ UNCHANGED envVars
    /\ UNCHANGED callVars
    /\ UNCHANGED statsVars
    /\ UNCHANGED otherVars

BatchNext ==
    \/ CompileStart
    \/ \E i \in 1..Len(calls) : CallConfigLoaded(i)
    \/ \E i \in 1..Len(calls) : CallTreeBuilt(i)
    \/ PromiseAllResolved

BatchSpec == BatchInit /\ [][BatchNext]_vars


(***************************************************************************)
(* compressAggressively, one step per loop iteration                       *)
(***************************************************************************)

\* most lines of an index handed to compressAggressively
MaxLoopLines == 8

\* lines an index is made of
LineKinds == <<"|01-getting-started:{installation.mdx}", "", "|é:{日.md}">>

\* the index of n lines that cycles through LineKinds from kind k on
LoopText(k, n) ==
    joinWith([i \in 1..n |-> LineKinds[((k + i) % Len(LineKinds)) + 1]], "\n")

LoopTexts == { LoopText(k, n) : k \in 1..Len(LineKinds), n \in 0..MaxLoopLines }

\* budgets handed to compressAggressively
LoopTargets == {-1, 0, 60, 8192}

\* an environment compressAggressively does not read
NoEnvironment ==
    /\ sep = "/"
    /\ configFile \in ConfigFiles
    /\ docs = Missing
    /\ Idle
    /\ NoBatch

LoopInit ==
    /\ NoEnvironment
    /\ NoOther

\* positions of the line breaks of a text
lineBreaks(text) == { i \in 1..Len(text) : CharAt(text, i) = "\n" }

\* compressed.split('\n').length
lineTotal(text) == Cardinality(lineBreaks(text)) + 1

\* a loop body that pops nothing
keepLastLine(text) == text

\* lines.pop(); compressed = lines.join('\n'): the text up to its last line
\* break
dropLastLine(text) ==
    LET last == CHOOSE i \in lineBreaks(text) : \A j \in lineBreaks(text) : j <= i
    IN  SubSeq(text, 1, last - 1)

\* compressAggressively(index, targetSize) up to the test of its while loop
CompressAggressivelyCall ==
    /\ loop.pc = "none"
    /\ \E text \in LoopTexts, target \in LoopTargets :
         loop' = [pc |-> "while", index |-> text,
                  compressed |-> rewritePasses(text), targetSize |-> target]
    /\ UNCHANGED <<envVars, callVars, statsVars, batchVars, watchVars, customVars>>

\* one pass through the body of the while loop that does not break
LoopIteration ==
    /\ loop.pc = "while"
    /\ byteLength(loop.compressed) > loop.targetSize
    /\ ~(lineTotal(loop.compressed) <= KeepLines)
    /\ loop' = [loop EXCEPT !.compressed = dropLastLine(loop.compressed)]
    /\ UNCHANGED <<envVars, callVars, statsVars, batchVars, watchVars, customVars>>

\* the while test fails, or the body breaks: compressed is returned
LoopExit ==
    /\ loop.pc = "while"
    /\ \/ ~(byteLength(loop.compressed) > loop.targetSize)
       \/ lineTotal(loop.compressed) <= KeepLines
    /\ loop' = [loop EXCEPT !.pc = "returned"]
    /\ UNCHANGED <<envVars, callVars, statsVars, batchVars, watchVars, customVars>>

LoopNext ==
    \/ CompressAggressivelyCall
    \/ LoopIteration
    \/ LoopExit

\* the call is synchronous code: once started, nothing suspends it
LoopSpec == LoopInit /\ [][LoopNext]_vars /\ WF_vars(LoopNext)


(***************************************************************************)
(* watchProject: debounced runUpdate executions                            *)
(***************************************************************************)

\* most runUpdate executions one watchProject call is followed through
MaxUpdates == 3

WatchInit ==
    /\ NoEnvironment
    /\ NoOther

\* an execution of runUpdate that has not returned
Running(i) == updates[i] # "done"

\* runUpdate returns or its catch block ends; the initial execution is the
\* one watchProject awaits before it reports that it is watching
finished(i) ==
    /\ updates' = [updates EXCEPT ![i] = "done"]
    /\ watch' = IF i = 1 THEN "watching" ELSE watch

\* watchProject(cwd, outPath): the handlers are registered, then the initial
\* runUpdate runs up to `await scanProject(cwd)`
WatchProjectCall ==
    /\ watch = "none"
    /\ watch' = "initial"
    /\ debounceTimer' = "null"
    /\ updates' = <<"scan">>
    /\ UNCHANGED <<envVars, callVars, statsVars, batchVars, loopVars, customVars>>

\* a 'change', 'add' or 'unlink' event: debouncedUpdate clears the timer and
\* sets a new one
FileEvent ==
    /\ watch # "none"
    /\ debounceTimer' = "pending"
    /\ UNCHANGED <<watch, updates>>
    /\ UNCHANGED <<envVars, callVars, statsVars, batchVars, loopVars, customVars>>

\* DEBOUNCE_MS have passed: the timer calls runUpdate, which runs up to
\* `await scanProject(cwd)`
TimerFires ==
    /\ debounceTimer = "pending"
    /\ Len(updates) < MaxUpdates
    /\ debounceTimer' = "fired"
    /\ updates' = Append(updates, "scan")
    /\ UNCHANGED watch
    /\ UNCHANGED <<envVars, callVars, statsVars, batchVars, loopVars, customVars>>

\* scanProject resolves with skills, and the first fetchDocs is awaited
Scanned(i) ==
    /\ updates[i] = "scan"
    /\ updates' = [updates EXCEPT ![i] = "fetch"]
    /\ UNCHANGED <<watch, debounceTimer>>
    /\ UNCHANGED <<envVars, callVars, statsVars, batchVars, loopVars, customVars>>

\* scanProject resolves with no skill, or rejects
ScannedNothing(i) ==
    /\ updates[i] = "scan"
    /\ finished(i)
    /\ UNCHANGED debounceTimer
    /\ UNCHANGED <<envVars, callVars, statsVars, batchVars, loopVars, customVars>>

\* the last fetchDocs resolves, and Promise.all over compressIndex is awaited
Fetched(i) ==
    /\ updates[i] = "fetch"
    /\ updates' = [updates EXCEPT ![i] = "compress"]
    /\ UNCHANGED <<watch, debounceTimer>>
    /\ UNCHANGED <<envVars, callVars, statsVars, batchVars, loopVars, customVars>>

\* Promise.all resolves, and injectAgentsMd is awaited
Compressed(i) ==
    /\ updates[i] = "compress"
    /\ updates' = [updates EXCEPT ![i] = "inject"]
    /\ UNCHANGED <<watch, debounceTimer>>
    /\ UNCHANGED <<envVars, callVars, statsVars, batchVars, loopVars, customVars>>

\* injectAgentsMd resolves and runUpdate returns
Injected(i) ==
    /\ updates[i] = "inject"
    /\ finished(i)
    /\ UNCHANGED debounceTimer
    /\ UNCHANGED <<envVars, callVars, statsVars, batchVars, loopVars, customVars>>

\* fetchDocs, compressIndex or injectAgentsMd rejects: the catch block logs
UpdateFailed(i) ==
    /\ updates[i] \in {"fetch", "compress", "inject"}
    /\ finished(i)
    /\ UNCHANGED debounceTimer
    /\ UNCHANGED <<envVars, callVars, statsVars, batchVars, loopVars, customVars>>

WatchNext ==
    \/ WatchProjectCall
    \/ FileEvent
    \/ TimerFires
    \/ \E i \in 1..Len(updates) : Scanned(i)
    \/ \E i \in 1..Len(updates) : ScannedNothing(i)
    \/ \E i \in 1..Len(updates) : Fetched(i)
    \/ \E i \in 1..Len(updates) : Compressed(i)
    \/ \E i \in 1..Len(updates) : Injected(i)
    \/ \E i \in 1..Len(updates) : UpdateFailed(i)

WatchSpec == WatchInit /\ [][WatchNext]_vars


(***************************************************************************)
(* Custom skills: addCustomSkill, removeCustomSkill, listCustomSkills      *)
(***************************************************************************)

\* source arguments of addCustomSkill, relative to cwd
Sources == {"skill-source", "vendor/My Skill", "docs", "gone"}

\* the sources that exist below cwd
ExistingSources == Sources \ {"gone"}

\* options.name of addCustomSkill; "" when the option is not given
NameOptions == {"", "my-skill"}

\* options.priority of addCustomSkill; <<>> when the option is not given
PriorityOptions == {<<>>, <<"api">>}

\* path.basename(source)
basename(source) ==
    LET segments == split(source, "/") IN segments[Len(segments)]

\* .replace(/[^a-z0-9-]/gi, '-')
RECURSIVE replaceUnsafe(_)
replaceUnsafe(s) ==
    IF s = "" THEN ""
    ELSE LET c == CharAt(s, 1)
         IN  (IF LowerOf(c) \in LowerLetters \/ c \in Digits \/ c = "-" THEN c ELSE "-")
                 \o replaceUnsafe(Tail(s))

\* options.name || basename(source).replace(/[^a-z0-9-]/gi, '-').toLowerCase()
skillNameOf(source, nameOption) ==
    IF nameOption # "" THEN nameOption
    ELSE toLowerCase(replaceUnsafe(basename(source)))

\* join(CUSTOM_SKILLS_DIR, name)
customPathOf(name, separator) ==
    join(join(".agent-docs", "custom", separator), name, separator)

CustomInit ==
    /\ sep \in Separators
    /\ configFile \in ConfigFiles
    /\ docs = Missing
    /\ Idle
    /\ NoBatch
    /\ NoOther

\* a filter that removes no entry
keepingAll(list, name) == list

\* customSkills.filter(s => s.name !== name)
withoutName(list, name) == SelectSeq(list, LAMBDA s : s.name # name)

\* config.customSkills || [] as loadConfig(cwd) returns it
listCustomSkills == customSkills

\* addCustomSkill(cwd, source, options) on a source that exists: the entry of
\* the same name is filtered out, the new entry is appended, the config saved
AddCustomSkill ==
    /\ \E source \in ExistingSources, nameOption \in NameOptions,
          priority \in PriorityOptions :
         LET name == skillNameOf(source, nameOption)
             loaded == listCustomSkills
             filtered == withoutName(loaded, name)
             skillConfig == [name |-> name, path |-> customPathOf(name, sep),
                             priority |-> priority]
         IN  /\ customSkills' = filtered \o <<skillConfig>>
             /\ lastCall' = [op |-> "add", name |-> name, value |-> TRUE,
                             loaded |-> loaded]
    /\ UNCHANGED <<envVars, callVars, statsVars, batchVars, loopVars, watchVars>>

\* addCustomSkill on a source that does not exist: it throws before the
\* config is loaded
AddCustomSkillThrows ==
    /\ \E source \in Sources \ ExistingSources, nameOption \in NameOptions :
         lastCall' = [op |-> "add", name |-> skillNameOf(source, nameOption),
                      value |-> FALSE, loaded |-> <<>>]
    /\ UNCHANGED customSkills
    /\ UNCHANGED <<envVars, callVars, statsVars, batchVars, loopVars, watchVars>>

\* names removeCustomSkill is called with
RemovedNames == {"my-skill", "skill-source", "docs", "other"}

\* removeCustomSkill(cwd, name): false when no entry has the name; otherwise
\* the entries of that name are filtered out, the config saved, true returned
RemoveCustomSkill ==
    /\ \E name \in RemovedNames :
         LET loaded == listCustomSkills
             found == \E k \in 1..Len(loaded) : loaded[k].name = name
         IN  /\ customSkills' = IF found THEN withoutName(loaded, name) ELSE customSkills
             /\ lastCall' = [op |-> "remove", name |-> name, value |-> found,
                             loaded |-> loaded]
    /\ UNCHANGED <<envVars, callVars, statsVars, batchVars, loopVars, watchVars>>

CustomNext ==
    \/ AddCustomSkill
    \/ AddCustomSkillThrows
    \/ RemoveCustomSkill

CustomSpec == CustomInit /\ [][CustomNext]_vars


(***************************************************************************)
(* Properties                                                              *)
(***************************************************************************)

Done == pc = "done"

\* the formatter's render of the finished call, before size enforcement
rendered == formatIndex(format, skill, orderedTree, cacheDir, sep)

lineCount(s) == Len(split(s, "\n"))

Min(a, b) == IF a < b THEN a ELSE b

namesOf(nodes) == [k \in 1..Len(nodes) |-> nodes[k].name]

C2_V1FloorIsThree ==
    (Done /\ format = "v1" /\ byteLength(rendered) > targetSize)
        => \/ byteLength(index) <= targetSize
           \/ lineCount(index) = 3

\* C2 (amended): a v1 render of n lines larger than the target is returned
\* either within the target or with exactly min(5, n) lines: the last line
\* is dropped until the budget is met or only 5 lines remain.
C2_V1FloorIsFive ==
    (Done /\ format = "v1" /\ byteLength(rendered) > targetSize)
        => \/ byteLength(index) <= targetSize
           \/ lineCount(index) = Min(5, lineCount(rendered))

\* a v1 render of more than 5 lines cut to 5 lines that still exceed the target
C2_Witness ==
    /\ Done
    /\ format = "v1"
    /\ lineCount(rendered) > 5
    /\ lineCount(index) = 5
    /\ byteLength(index) > targetSize

\* C3 (as stated): the returned index has at least 3 lines for v1 and at
\* least 5 lines for v2.
C3_DocumentedFloor ==
    Done => /\ format = "v1" => lineCount(index) >= 3
            /\ format = "v2" => lineCount(index) >= 5

\* C3 (amended): for both formats the returned index has at least min(5, n)
\* lines, n being the number of lines of the formatter's render, and so at
\* least the 2 header lines.
C3_FloorOfFiveOrRender ==
    Done => /\ lineCount(index) >= Min(5, lineCount(rendered))
            /\ lineCount(index) >= 2

\* a v2 render of more than 5 lines cut down to the floor
C3_Witness ==
    /\ Done
    /\ format = "v2"
    /\ lineCount(rendered) > 5
    /\ lineCount(index) = 5
    /\ byteLength(index) > targetSize

\* C4: when the cache directory does not exist or cannot be read, a v1
\* compressIndex returns exactly the two header lines and nothing else.
C4_MissingCacheGivesHeaderOnly ==
    (Done /\ format = "v1" /\ (~docs.isDirectory \/ ~docs.readable))
        => /\ tree = <<>>
           /\ lineCount(index) = 2
           /\ index = "[" \o displayNameOf(skill) \o " Docs Index]|root: ./.agent-docs/"
                          \o skill.name \o "\n"
                          \o "|IMPORTANT: Prefer retrieval-led reasoning over "
                          \o "pre-training-led reasoning for "
                          \o displayNameOf(skill) \o " tasks."

\* a finished v1 call on a cache directory that does not exist
C4_Witness == Done /\ format = "v1" /\ ~docs.isDirectory /\ tree = <<>>

\* budgets a render is enforced against when budgets are compared
Budgets == {100, 230, 300, 8192}

\* C6: for a fixed render and budgets t1 <= t2 (t1 the budget of this call),
\* the enforcer does no more at t2 than at t1: the output for t2 has at least
\* as many lines (no more trailing lines are dropped), and when the render
\* is returned untouched at t1 it is returned untouched at t2.
C6_LargerBudgetDoesNoMore ==
    Done => \A t2 \in Budgets :
              targetSize < t2 =>
                LET out2 == enforceSize(rendered, t2)
                IN  /\ lineCount(out2) >= lineCount(index)
                    /\ lineCount(rendered) - lineCount(out2)
                          <= lineCount(rendered) - lineCount(index)
                    /\ index = rendered => out2 = rendered

\* a render that loses lines at this call's budget and fewer, but some, at a
\* larger one
C6_Witness ==
    /\ Done
    /\ \E other \in Budgets :
          /\ targetSize < other
          /\ lineCount(index) < lineCount(enforceSize(rendered, other))
          /\ lineCount(enforceSize(rendered, other)) < lineCount(rendered)

\* first priority term (1-based) that occurs, ignoring case, in the name;
\* 0 when none does
FirstMatchingTerm(name, priority) ==
    LET hits == { i \in 1..Len(priority) :
                    includes(toLowerCase(name), toLowerCase(priority[i])) }
    IN  IF hits = {} THEN 0 ELSE CHOOSE i \in hits : \A j \in hits : i <= j

ExampleNode(name) ==
    [path |-> "/p/" \o name, name |-> name, isDir |-> TRUE,
     children |-> <<[path |-> "/p/" \o name \o "/a.md", name |-> "a.md",
                     isDir |-> FALSE, children |-> <<>>, extracted |-> FALSE,
                     headings |-> <<>>, firstParagraph |-> ""]>>,
     extracted |-> FALSE, headings |-> <<>>, firstParagraph |-> ""]

C8_PrioritizerPermutes ==
    Done => /\ Len(orderedTree) = Len(tree)
            /\ \A m \in 1..Len(tree) :
                  Cardinality({ i \in 1..Len(orderedTree) : orderedTree[i] = tree[m] }) = 1

\* C9: line 1 of every v1 render is `[{displayName} Docs Index]|root:
\* ./.agent-docs/{skillId}` and line 2 is the IMPORTANT instruction for
\* {displayName} (the skill's name where it has no display name), whatever
\* the cwd, the cache root and the tree are.
C9_V1HeaderLines ==
    (Done /\ format = "v1") =>
      LET lines == split(rendered, "\n")
          shown == IF skill.displayName = "" THEN skill.name ELSE skill.displayName
      IN  /\ Len(lines) >= 2
          /\ lines[1] = "[" \o shown \o " Docs Index]|root: ./.agent-docs/" \o skill.name
          /\ lines[2] = "|IMPORTANT: Prefer retrieval-led reasoning over "
                          \o "pre-training-led reasoning for " \o shown \o " tasks."

\* a v1 render of a non-empty tree under a cwd given in the options
C9_Witness ==
    /\ Done
    /\ format = "v1"
    /\ options.cwd # ""
    /\ skill.displayName # ""
    /\ Len(orderedTree) > 0

\* the names of the immediate file children of a node, in tree order
ImmediateFiles(node) == namesOf(SelectSeq(node.children, LAMBDA c : ~c.isDir))

\* C10: in a v1 render within budget every top-level directory of the
\* rendered tree that has an immediate file child has exactly one line
\* `|{path below the cache root}:{f1,f2,...}` listing exactly those children,
\* in tree order, extensions kept.
C10_V1SectionLines ==
    (Done /\ format = "v1" /\ byteLength(rendered) <= targetSize) =>
      LET lines == split(index, "\n")
      IN  \A m \in 1..Len(orderedTree) :
            LET node == orderedTree[m]
                below == SubSeq(node.path, Len(cacheDir) + 2, Len(node.path))
                line == "|" \o below \o ":{" \o joinWith(ImmediateFiles(node), ",") \o "}"
            IN  (node.isDir /\ Len(ImmediateFiles(node)) > 0)
                   => /\ below = node.name
                      /\ Cardinality({ i \in 1..Len(lines) : lines[i] = line }) = 1

\* the 01-getting-started example rendered within budget
C10_Witness ==
    /\ Done
    /\ format = "v1"
    /\ byteLength(rendered) <= targetSize
    /\ \E i \in 1..lineCount(index) :
          split(index, "\n")[i] = "|01-getting-started:{installation.mdx,setup.mdx}"

\* C11: in a v2 output the lines `|BREAKING: {change}` are exactly the
\* entries of the breaking-changes table for the skill's identifier and the
\* text of its version before the first '.', in table order: for nextjs
\* 16.0.0 the two nextjs changes, the first being `|BREAKING:
\* cookies()/headers() are now async`; a skill without an entry has none.
C11_BreakingLines ==
    (Done /\ format = "v2") =>
      LET breaking == SelectSeq(split(index, "\n"),
                                LAMBDA l : startsWith(l, "|BREAKING: "))
      IN  /\ (skill.name = "nextjs" /\ skill.version = "16.0.0") =>
                 breaking = << "|BREAKING: cookies()/headers() are now async",
                               "|BREAKING: fetch() no longer cached by default" >>
          /\ skill.name \notin {"nextjs", "react"} => breaking = <<>>

\* a v2 index of nextjs 16.0.0 that was truncated by the enforcer
C11_Witness ==
    /\ Done
    /\ format = "v2"
    /\ skill.name = "nextjs"
    /\ lineCount(index) < lineCount(rendered)
    /\ \E k \in 1..lineCount(index) :
          split(index, "\n")[k] = "|BREAKING: cookies()/headers() are now async"

RECURSIVE HasMarkdownFile(_)
\* the subtree of the node holds a .md or .mdx file node
HasMarkdownFile(node) ==
    IF node.isDir
    THEN \E k \in 1..Len(node.children) : HasMarkdownFile(node.children[k])
    ELSE endsWith(node.name, ".md") \/ endsWith(node.name, ".mdx")

RECURSIVE WellPruned(_)
\* every directory node, at every depth, has children and a markdown file
\* below it
WellPruned(nodes) ==
    \A k \in 1..Len(nodes) :
        nodes[k].isDir =>
            /\ Len(nodes[k].children) > 0
            /\ HasMarkdownFile(nodes[k])
            /\ WellPruned(nodes[k].children)

\* C15: in the tree buildFileTree returns every directory node, at every
\* depth, has a non-empty children list and a .md/.mdx file node in its
\* subtree.
C15_NoEmptyDirectoryNode == Done => WellPruned(tree)

\* the tree of a cache holding 01-app, whose directories empty (only
\* notes.txt), .git and locked (unreadable) are not materialized
C15_Witness ==
    /\ Done
    /\ \E k \in 1..Len(tree) :
          /\ tree[k].name = "01-app"
          /\ namesOf(tree[k].children) = <<"page.md", "api-reference", "deep">>

\* C16: when two top-level nodes have the same first matching priority
\* term, the last such node of the tree is in the output and every earlier
\* one appears nowhere in it.
C16_LastWriteWins ==
    Done =>
      LET priority == registryPriority(skill.name)
      IN  \A m, n \in 1..Len(tree) :
            (/\ m < n
             /\ FirstMatchingTerm(tree[m].name, priority) >= 1
             /\ FirstMatchingTerm(tree[m].name, priority)
                   = FirstMatchingTerm(tree[n].name, priority))
              => /\ \A i \in 1..Len(orderedTree) : orderedTree[i] # tree[m]
                 /\ (\A l \in (n + 1)..Len(tree) :
                        FirstMatchingTerm(tree[l].name, priority)
                          # FirstMatchingTerm(tree[n].name, priority))
                      => \E i \in 1..Len(orderedTree) : orderedTree[i] = tree[n]

\* 01-app and App-Router both match `app`: only App-Router is left
C16_Witness ==
    /\ Done
    /\ skill.name = "nextjs"
    /\ namesOf(tree) = <<"01-app", "App-Router">>
    /\ namesOf(orderedTree) = <<"App-Router">>

\* C17: a render within the effective target is returned unchanged.
C17_WithinBudgetUnchanged ==
    (Done /\ byteLength(rendered) <= targetSize) => index = rendered

\* a render within budget that every rewrite pass would have changed
C17_Witness ==
    /\ Done
    /\ byteLength(rendered) <= targetSize
    /\ index = rendered
    /\ includes(rendered, ".md")
    /\ includes(rendered, "api-reference")
    /\ includes(rendered, "01-a")

\* the text of a section line between its leading `|` and the first `:`,
\* `/` or `\`
FirstSegment(line) ==
    LET ends == { i \in 2..(Len(line) + 1) :
                    i = Len(line) + 1 \/ CharAt(line, i) \in {":", "/", "\\"} }
    IN  SubSeq(line, 2, firstOf(ends) - 1)

\* C18 (as stated): after the enforcer ran, a path segment beginning with
\* two digits, a hyphen and a lowercase letter has become parseInt(digits)
\* followed by that letter and nothing else (`01-app` is `1a`).
C18_NumberedSegmentContracted ==
    (Done /\ byteLength(rendered) > targetSize) =>
      \A k \in 1..lineCount(index) :
        LET before == FirstSegment(split(rendered, "\n")[k])
            after == FirstSegment(split(index, "\n")[k])
        IN  (/\ startsWith(split(rendered, "\n")[k], "|")
             /\ Len(before) >= 4
             /\ CharAt(before, 1) \in Digits
             /\ CharAt(before, 2) \in Digits
             /\ CharAt(before, 3) = "-"
             /\ CharAt(before, 4) \in LowerLetters)
              => after = (IF CharAt(before, 1) = "0" THEN "" ELSE CharAt(before, 1))
                           \o CharAt(before, 2) \o CharAt(before, 4)

\* C13 (as stated): the string compressIndex returns never contains one of
\* the two sentinel lines of the managed section.
C13_NoSentinel ==
    Done => /\ ~includes(index, BeginSentinel)
            /\ ~includes(index, EndSentinel)

\* C19 (as stated): after the enforcer ran on an over-budget index the
\* output contains no `.md` (and so no `.mdx`).
C19_NoExtensionLeft ==
    (Done /\ byteLength(rendered) > targetSize) => ~includes(index, ".md")

\* C19 (amended): after the enforcer ran, the output contains `.md` only
\* where the removal of an extension joined the text around it, that is,
\* only when the render has a `.md` right after a `.` or a `.m`.
C19_ExtensionsRemovedOnce ==
    (Done /\ byteLength(rendered) > targetSize) =>
        (includes(index, ".md")
            => includes(rendered, "..md") \/ includes(rendered, ".m.md"))

\* an over-budget render with extensions comes back without any
C19_Witness ==
    /\ Done
    /\ byteLength(rendered) > targetSize
    /\ includes(rendered, ".md")
    /\ includes(rendered, ".mdx")
    /\ ~includes(index, ".md")
    /\ lineCount(index) > 2

\* C20 (as stated): after the enforcer ran on an over-budget index the
\* output contains none of the four verbose names.
C20_NoVerboseName ==
    (Done /\ byteLength(rendered) > targetSize) =>
        \A name \in {"getting-started", "api-reference",
                      "building-your-application", "configuration"} :
            ~includes(index, name)

\* C20 (amended): after the enforcer ran, the output contains one of the four
\* verbose names only where a replacement completed it again with the text
\* next to it: the render, extensions removed, then holds
\* `configurationetting-started`, `api-reference-reference`,
\* `building-your-applicationing-your-application` or `configurationuration`.
C20_NamesReplacedOnce ==
    (Done /\ byteLength(rendered) > targetSize) =>
        LET stripped == replaceGlobal(rendered, ExtensionPattern)
        IN  /\ includes(index, "getting-started")
                  => includes(stripped, "configurationetting-started")
            /\ includes(index, "api-reference")
                  => includes(stripped, "api-reference-reference")
            /\ includes(index, "building-your-application")
                  => includes(stripped, "building-your-applicationing-your-application")
            /\ includes(index, "configuration")
                  => includes(stripped, "configurationuration")

\* an over-budget render naming getting-started, api-reference and
\* configuration comes back with gs, api and config in their place
C20_Witness ==
    /\ Done
    /\ byteLength(rendered) > targetSize
    /\ includes(rendered, "01-getting-started:")
    /\ includes(rendered, "api-reference:{configuration.md}")
    /\ includes(index, "1gs:")
    /\ includes(index, "api:{config}")
    /\ ~includes(index, "getting-started")
    /\ ~includes(index, "api-reference")
    /\ ~includes(index, "configuration")

StatsDone == pc = "returned"

\* C12 (as stated): reductionPercent is an integer in 0..100, and 0 when
\* originalSize is 0.
C12_PercentWithinRange ==
    StatsDone => /\ stats.reductionPercent \in 0..100
                 /\ stats.originalSize = 0 => stats.reductionPercent = 0

\* C12 (amended): reductionPercent is 0 when originalSize is 0 and otherwise
\* the integer nearest to (1 - compressedSize / originalSize) * 100: it is at
\* most 100, at least 0 when the index is no larger than the documentation,
\* and negative when the index is more than 0.5% larger than it.
C12_PercentIsRoundedReduction ==
    StatsDone =>
      LET o == stats.originalSize
          c == stats.compressedSize
          r == stats.reductionPercent
          distance == r * o - 100 * (o - c)
      IN  /\ o = calcDirSize(docs)
          /\ c = byteLength(index)
          /\ r \in Int
          /\ r <= 100
          /\ o = 0 => r = 0
          /\ o > 0 => 2 * (IF distance < 0 THEN 0 - distance ELSE distance) <= o
          /\ (o > 0 /\ c <= o) => r >= 0
          /\ (o > 0 /\ 200 * c > 201 * o) => r < 0

\* statistics of a cache whose index is larger than its documentation
C12_Witness ==
    /\ StatsDone
    /\ stats.originalSize > 0
    /\ stats.compressedSize > stats.originalSize
    /\ stats.reductionPercent < 0

\* what compressIndex(s) returns when it is the only call running, for the
\* cache directory state cache
compressIndexAlone(s, cache) ==
    LET compression == loadConfig(configFile)
        fmt == effectiveFormat(NoOptions, compression)
        root == cacheDirOf(cwdOf(<<>>, sep), s, sep)
        ordered == prioritizeTree(buildFileTree(cache, root, fmt = "v2", sep),
                                  registryPriority(s.name))
    IN  enforceSize(formatIndex(fmt, s, ordered, root, sep),
                    effectiveTargetSize(NoOptions, compression))

\* C14: under every interleaving of the calls Promise.all waits for, each
\* call works on its own skill and returns the string it returns when run
\* alone on the same directory contents, and slot i of the array holds the
\* result of the call for the i-th detected skill.
C14_BatchEqualsAlone ==
    /\ \A i \in 1..Len(calls) :
          /\ calls[i].skill = detected[i]
          /\ calls[i].pc = "done"
                => /\ calls[i].index = compressIndexAlone(detected[i], caches[i])
                   /\ indexes[i] = <<calls[i].index>>
          /\ calls[i].pc # "done" => indexes[i] = <<>>
    /\ master = "resolved"
          => /\ Len(indexes) = Len(detected)
             /\ \A i \in 1..Len(detected) :
                   indexes[i] = <<compressIndexAlone(detected[i], caches[i])>>

\* the second call has returned while the first still waits for its config
C14_Witness ==
    /\ master = "awaiting"
    /\ Len(detected) = 2
    /\ caches[1] # caches[2]
    /\ calls[1].pc = "loadConfig"
    /\ calls[2].pc = "done"
    /\ indexes[1] = <<>>
    /\ indexes[2] = <<compressIndexAlone(detected[2], caches[2])>>

\* the line `|{path}:{f1,f2,...}` of a directory node whose path below the
\* cache root is path
SectionLine(path, node) == "|" \o path \o ":{" \o joinWith(ImmediateFiles(node), ",") \o "}"

\* the lines a tree may have in a v1 render: one per top-level directory and
\* one per immediate subdirectory, each only if it has immediate files, and
\* one per top-level file
TwoLevelLines(nodes, separator) ==
    { SectionLine(nodes[m].name, nodes[m]) :
        m \in { k \in 1..Len(nodes) :
                  nodes[k].isDir /\ ImmediateFiles(nodes[k]) # <<>> } }
      \cup UNION { { SectionLine(nodes[m].name \o separator \o nodes[m].children[c].name,
                                  nodes[m].children[c]) :
                       c \in { k \in 1..Len(nodes[m].children) :
                                 /\ nodes[m].children[k].isDir
                                 /\ ImmediateFiles(nodes[m].children[k]) # <<>> } } :
                   m \in { k \in 1..Len(nodes) : nodes[k].isDir } }
      \cup { "|{" \o nodes[m].name \o "}" : m \in { k \in 1..Len(nodes) : ~nodes[k].isDir } }

\* C21: after its two header lines a v1 render has exactly one line per
\* top-level directory with immediate files and one per immediate
\* subdirectory with immediate files (besides the lines of top-level files):
\* files three or more levels deep are on no line, and a directory without
\* immediate files has no line.
C21_V1TwoLevels ==
    (Done /\ format = "v1") =>
      LET lines == split(rendered, "\n")
          sections == SubSeq(lines, 3, Len(lines))
          expected == TwoLevelLines(orderedTree, sep)
      IN  /\ { sections[k] : k \in 1..Len(sections) } = expected
          /\ Len(sections) = Cardinality(expected)

\* a v1 render of 01-app, whose file deep/deeper/x.md and whose directory
\* deep (no immediate file) are left out
C21_Witness ==
    /\ Done
    /\ format = "v1"
    /\ \E m \in 1..Len(orderedTree) :
          /\ orderedTree[m].name = "01-app"
          /\ \E c \in 1..Len(orderedTree[m].children) :
                /\ orderedTree[m].children[c].name = "deep"
                /\ orderedTree[m].children[c].children[1].children[1].name = "x.md"
    /\ includes(rendered, "api-reference:{configuration.md}")
    /\ ~includes(rendered, "x.md")
    /\ ~includes(rendered, "deep")

\* 1 for a BREAKING line, 2 for a NEW line, 3 for any other line
LineRank(line) ==
    IF startsWith(line, "|BREAKING: ") THEN 1
    ELSE IF startsWith(line, "|NEW: ") THEN 2
    ELSE 3

\* C22: a v2 render starts with the index header `[{displayName} Docs
\* Index]|v{version}|root:./.agent-docs/{skillId}` and the PREFER line, then
\* has its BREAKING lines, then at most 5 NEW lines, then its section lines;
\* for nextjs 16.0.0 the NEW lines are the 5 entries of the table in order.
C22_V2LineOrder ==
    (Done /\ format = "v2") =>
      LET lines == split(rendered, "\n")
          shown == IF skill.displayName = "" THEN skill.name ELSE skill.displayName
          new == SelectSeq(lines, LAMBDA l : startsWith(l, "|NEW: "))
      IN  /\ Len(lines) >= 2
          /\ lines[1] = "[" \o shown \o " Docs Index]|v" \o skill.version
                           \o "|root:./.agent-docs/" \o skill.name
          /\ lines[2] = "|PREFER retrieval over pre-training for " \o shown \o " tasks."
          /\ \A a, b \in 3..Len(lines) : a < b => LineRank(lines[a]) <= LineRank(lines[b])
          /\ Len(new) <= 5
          /\ (skill.name = "nextjs" /\ skill.version = "16.0.0") =>
                new = << "|NEW: connection() for dynamic rendering",
                         "|NEW: 'use cache' directive for caching",
                         "|NEW: cacheLife() for custom expiration",
                         "|NEW: cacheTag() for cache invalidation",
                         "|NEW: forbidden()/unauthorized() responses" >>

\* a v2 render with BREAKING, NEW and section lines
C22_Witness ==
    /\ Done
    /\ format = "v2"
    /\ LET lines == split(rendered, "\n")
       IN  /\ Len(lines) >= 10
           /\ LineRank(lines[3]) = 1
           /\ LineRank(lines[5]) = 2
           /\ LineRank(lines[Len(lines)]) = 3

\* a file name without its trailing .md or .mdx
WithoutTrailingExtension(name) ==
    IF endsWith(name, ".mdx") THEN SubSeq(name, 1, Len(name) - 4)
    ELSE IF endsWith(name, ".md") THEN SubSeq(name, 1, Len(name) - 3)
    ELSE name

\* C23: after the header, BREAKING and NEW lines a v2 render has, in tree
\* order, exactly one line per top-level directory that has immediate file
\* children: `|{directory}:{names}` with the names of those children without
\* their trailing .md/.mdx and `/` as separator; nested subdirectories and
\* top-level files have no line.
C23_V2TopLevelOnly ==
    (Done /\ format = "v2") =>
      LET lines == split(rendered, "\n")
          sections == SelectSeq(SubSeq(lines, 3, Len(lines)),
                                LAMBDA l : LineRank(l) = 3)
          listed == SelectSeq(orderedTree,
                              LAMBDA n : n.isDir /\ ImmediateFiles(n) # <<>>)
      IN  /\ Len(sections) = Len(listed)
          /\ \A k \in 1..Len(listed) :
                LET names == ImmediateFiles(listed[k])
                IN  sections[k] =
                      "|" \o listed[k].name \o ":{"
                          \o joinWith([f \in 1..Len(names) |->
                                          WithoutTrailingExtension(names[f])], ",")
                          \o "}"
          /\ \A k \in 1..Len(sections) : ~includes(sections[k], "\\")

\* a v2 render of a cache with 01-app (which has nested directories) and the
\* top-level file README.md
C23_Witness ==
    /\ Done
    /\ format = "v2"
    /\ \E m \in 1..Len(orderedTree) : orderedTree[m].name = "README.md"
    /\ includes(rendered, "\n|01-app:{page}")
    /\ ~includes(rendered, "README")
    /\ ~includes(rendered, "api-reference")

RECURSIVE WithoutContent(_)
\* the nodes without what was extracted from the content of their files
WithoutContent(nodes) ==
    [k \in 1..Len(nodes) |->
        [nodes[k] EXCEPT !.extracted = FALSE, !.headings = <<>>,
                         !.firstParagraph = "",
                         !.children = WithoutContent(nodes[k].children)]]

C25_TargetAlwaysPositive ==
    pc \in {"buildFileTree", "done", "returned"} =>
        /\ targetSize > 0
        /\ targetSize =
              (IF options.targetSize # 0 THEN options.targetSize
               ELSE IF configFile.exists /\ configFile.parses /\ configFile.hasTargetSize
                    THEN configFile.targetSize
                    ELSE 8192)

\* the files readdir lists in a directory that become file nodes: markdown
\* names that do not start with a dot
MarkdownFilesOf(entries) ==
    SelectSeq(entries, LAMBDA e : /\ ~e.isDirectory
                                  /\ ~startsWith(e.name, ".")
                                  /\ (endsWith(e.name, ".md") \/ endsWith(e.name, ".mdx")))

\* C26: in a v2 build every markdown file of a top-level directory has its
\* node, in listing order, whether its read failed or not; a file whose read
\* failed has no headings and no first paragraph, and it is on the section
\* line of its directory in the render like its siblings.
C26_ReadFailureAbsorbed ==
    (Done /\ format = "v2" /\ docs.isDirectory /\ docs.readable) =>
      \A k \in 1..Len(docs.entries) :
        LET e == docs.entries[k]
            files == MarkdownFilesOf(e.entries)
        IN  (e.isDirectory /\ e.readable /\ ~startsWith(e.name, ".") /\ files # <<>>) =>
              \E m \in 1..Len(tree) :
                /\ tree[m].name = e.name
                /\ ImmediateFiles(tree[m]) = [f \in 1..Len(files) |-> files[f].name]
                /\ \A f \in 1..Len(files) :
                      LET node == SelectSeq(tree[m].children, LAMBDA c : ~c.isDir)[f]
                      IN  /\ node.extracted = files[f].readable
                          /\ ~files[f].readable
                                => node.headings = <<>> /\ node.firstParagraph = ""
                /\ (\E o \in 1..Len(orderedTree) : orderedTree[o] = tree[m])
                      => \E l \in 1..lineCount(rendered) :
                            split(rendered, "\n")[l] =
                              "|" \o e.name \o ":{"
                                  \o joinWith([f \in 1..Len(files) |->
                                                 WithoutTrailingExtension(files[f].name)],
                                              ",")
                                  \o "}"

\* a v2 call on a cache whose 01-getting-started holds installation.mdx,
\* which cannot be read, before setup.mdx, which can
C26_Witness ==
    /\ Done
    /\ format = "v2"
    /\ \E m \in 1..Len(tree) :
          /\ tree[m].name = "01-getting-started"
          /\ namesOf(tree[m].children) = <<"installation.mdx", "setup.mdx">>
          /\ ~tree[m].children[1].extracted
          /\ tree[m].children[2].firstParagraph # ""
    /\ includes(rendered, "|01-getting-started:{installation,setup}")

\* C27: when the enforcer runs, its output is the first k lines of the text
\* passes 1-4 produce, with k >= min(5, number of lines of that text): the
\* two header lines stay the first two lines and no line in between is
\* removed or moved.
C27_TruncationKeepsPrefix ==
    (Done /\ byteLength(rendered) > targetSize) =>
      LET full == split(rewritePasses(rendered), "\n")
          out == split(index, "\n")
      IN  /\ Len(out) <= Len(full)
          /\ out = SubSeq(full, 1, Len(out))
          /\ Len(out) >= Min(5, Len(full))
          /\ Len(out) >= 2
          /\ out[1] = full[1]
          /\ out[2] = full[2]

\* an enforcer run that dropped at least two trailing lines
C27_Witness ==
    /\ Done
    /\ byteLength(rendered) > targetSize
    /\ lineCount(index) + 2 <= lineCount(rendered)
    /\ lineCount(index) >= 5

LoopReturned == loop.pc = "returned"

\* the stepwise loop returns what the operator compressAggressively computes
LoopAgreesWithOperator ==
    LoopReturned => loop.compressed = compressAggressively(loop.index, loop.targetSize)

LoopMayStop ==
    \/ byteLength(loop.compressed) <= loop.targetSize
    \/ lineCount(loop.compressed) <= 5

\* C28: for every input string and every targetSize, negative ones included,
\* the truncation loop of compressAggressively terminates; each iteration
\* removes exactly one line, the last one; and the loop is left exactly when
\* the size is within the target or at most 5 lines remain.
C28_LoopTerminates ==
    /\ <>LoopReturned
    /\ [][loop.pc = "while" /\ loop'.pc = "while" =>
            /\ lineCount(loop'.compressed) = lineCount(loop.compressed) - 1
            /\ loop.compressed = loop'.compressed \o "\n"
                   \o split(loop.compressed, "\n")[lineCount(loop.compressed)]]_vars
    /\ [][loop.pc = "while" => (LoopMayStop <=> loop'.pc = "returned")]_vars

\* a call with a budget nothing can meet that dropped lines down to 5 and
\* returned
C28_Witness ==
    /\ LoopReturned
    /\ loop.targetSize < 0
    /\ lineCount(rewritePasses(loop.index)) > 5
    /\ lineCount(loop.compressed) = 5

\* C29 (as stated): at most one runUpdate execution is in progress at any
\* time: a debounced update never starts while a previous update, the
\* initial one included, is still running.
C29_AtMostOneUpdate ==
    Cardinality({ i \in 1..Len(updates) : Running(i) }) <= 1

EntriesNamed(list, name) == { k \in 1..Len(list) : list[k].name = name }

\* C30: after any sequence of addCustomSkill and removeCustomSkill calls run
\* one after another, customSkills has at most one entry per name; a
\* successful add leaves exactly one entry of its name, the new one, at the
\* end of the list and every other entry as it was; and after
\* removeCustomSkill returned true no entry of listCustomSkills has the name.
C30_OneEntryPerName ==
    /\ \A k, l \in 1..Len(customSkills) :
         customSkills[k].name = customSkills[l].name => k = l
    /\ lastCall.op = "add" /\ lastCall.value =>
         /\ EntriesNamed(customSkills, lastCall.name) = {Len(customSkills)}
         /\ customSkills[Len(customSkills)].path = customPathOf(lastCall.name, sep)
         /\ SubSeq(customSkills, 1, Len(customSkills) - 1)
              = SelectSeq(lastCall.loaded, LAMBDA s : s.name # lastCall.name)
    /\ lastCall.op = "remove" /\ lastCall.value =>
         EntriesNamed(listCustomSkills, lastCall.name) = {}

\* an add under a name that already had an entry, with a different priority,
\* in a list of two: the list still has two entries and the new one is last
C30_Witness ==
    /\ lastCall.op = "add"
    /\ lastCall.value
    /\ Len(lastCall.loaded) = 2
    /\ lastCall.loaded[1].name = lastCall.name
    /\ Len(customSkills) = 2
    /\ customSkills[2].priority # lastCall.loaded[1].priority

====
